---- MODULE Spec2Model ----
(***************************************************************************)
(* The application intake pipeline of server.js: POST /enviar-candidatura  *)
(* (multer upload, field validation, SMTP verify, sendMail, temp-file      *)
(* cleanup, JSON response), together with the order in which Express       *)
(* dispatches the registered middleware.                                   *)
(*                                                                         *)
(* Each action is one run-to-completion block of the Node.js event loop:   *)
(* the code between two awaits runs atomically, other requests interleave  *)
(* only at the awaits and at the asynchronous upload step.                 *)
(***************************************************************************)
EXTENDS Integers, Sequences, FiniteSets, TLC

VARIABLES
    now,        \* Date.now(), in milliseconds
    sub,        \* the submission each request carries (its input; never changes)
    pc,         \* where each request stands in the pipeline
    reqFile,    \* req.file as multer left it (NoFile when there is none)
    disk,       \* the uploads directory: the set of [path, obj] entries that exist
    fileObj,    \* history: the file object each request's upload stored
    removed,    \* history: how many times each file object was unlinked
    trace,      \* history: the effects each request performed, in code order
    mailCalls,  \* the mailOptions each request passed to sendMail
    attachOk,   \* whether the transport could read the attachment
    delivered,  \* whether sendMail resolved for the request
    res,        \* the response sent to the client (NoRes while none)
    fsFaulty    \* whether fs.unlinkSync may throw in this behaviour

vars == <<now, sub, pc, reqFile, disk, fileObj, removed, trace, mailCalls,
          attachOk, delivered, res, fsFaulty>>

(***************************************************************************)
(* Bounds of the model.                                                    *)
(***************************************************************************)
MaxTime == 1
MaxRnd == 1
MaxEmailLen == 5

\* The requests in flight.  Request 1 ranges over every submission, the
\* others over the rival submissions below.
Reqs == {1, 2}

(***************************************************************************)
(* Program constants.                                                      *)
(***************************************************************************)
FileSizeLimit == 5 * 1024 * 1024

AllowedMimes ==
    { "application/pdf",
      "application/msword",
      "application/vnd.openxmlformats-officedocument.wordprocessingml.document" }

MsgFileTooLarge == "Arquivo muito grande. Tamanho máximo permitido: 5MB"
MsgAllRequired == "Todos os campos são obrigatórios"
MsgInvalidEmail == "E-mail inválido"
MsgSent == "Candidatura enviada com sucesso! Entraremos em contato em breve."
MsgInternal == "Erro interno do servidor"
MsgMailConfig == "Erro de configuração do servidor de e-mail"
MsgAttachment == "Erro ao processar o arquivo anexo"

NoFile == [path |-> <<>>]
NoUpload == [originalname |-> <<>>, mimetype |-> "", size |-> 0]
NoRes == [status |-> 0]

Json(status, success, message) ==
    [status |-> status, success |-> success, message |-> message]

(***************************************************************************)
(* Strings that the code inspects character by character are sequences of  *)
(* one-character strings.                                                  *)
(***************************************************************************)
WhiteSpace == {" ", "\t", "\n"}

DigitChars == <<"0", "1", "2", "3", "4", "5", "6", "7", "8", "9">>

\* Number-to-string conversion of `Date.now() + '-' + Math.round(...)`.
RECURSIVE Digits(_)
Digits(n) ==
    IF n < 10 THEN <<DigitChars[n + 1]>>
    ELSE Digits(n \div 10) \o <<DigitChars[(n % 10) + 1]>>

\* storage.filename: uniqueSuffix + '_' + file.originalname, where
\* uniqueSuffix = Date.now() + '-' + Math.round(Math.random() * 1E9).
Filename(ts, rnd, originalname) ==
    Digits(ts) \o <<"-">> \o Digits(rnd) \o <<"_">> \o originalname

\* storage.destination joined with the file name by multer's disk storage.
StoredPath(ts, rnd, originalname) ==
    <<"uploads/">> \o Filename(ts, rnd, originalname)

\* A file filter that lets every content type through.
FileFilterAcceptsAny(mimetype) == TRUE

\* fileFilter: allowedMimes.includes(file.mimetype).
FileFilterAccepts(mimetype) == mimetype \in AllowedMimes

\* limits.fileSize: multer aborts with LIMIT_FILE_SIZE past the limit.
ExceedsLimit(size) == size > FileSizeLimit

\* One character of the class [^\s@].
InClass(c) == c \notin WhiteSpace /\ c # "@"

\* The test of a pattern without the dot and top-level part,
\* /^[^\s@]+@[^\s@]+$/.
EmailRegexNoTld(s) ==
    \E i \in 1..Len(s) :
        /\ 1 < i /\ i < Len(s)
        /\ s[i] = "@"
        /\ \A k \in 1..Len(s) : k # i => InClass(s[k])

\* emailRegex.test(email) for /^[^\s@]+@[^\s@]+\.[^\s@]+$/ : the string splits
\* as L @ D . T with L, D and T non-empty runs of [^\s@].
EmailRegexTest(s) ==
    \E i \in 1..Len(s), j \in 1..Len(s) :
        /\ 1 < i /\ i + 1 < j /\ j < Len(s)
        /\ s[i] = "@"
        /\ s[j] = "."
        /\ \A k \in 1..Len(s) : k # i => InClass(s[k])

\* JavaScript truthiness of a form field: `!name` holds of the empty string
\* and of a field that was not sent (both are the empty sequence here).
Truthy(s) == s # <<>>

\* The condition of the first validation `if` of the handler.
MissingField(name, email, position, resumeFile) ==
    \/ ~Truthy(name)
    \/ ~Truthy(email)
    \/ ~Truthy(position)
    \/ resumeFile = NoFile

\* The message chosen in the catch block from error.code.
ErrorMessage(error) ==
    IF error.code = "ECONNECTION" \/ error.code = "EAUTH" THEN MsgMailConfig
    ELSE IF error.code = "ENOENT" THEN MsgAttachment
    ELSE MsgInternal

(***************************************************************************)
(* Express dispatch.  The application's stack in registration order; a      *)
(* request walks it from the top, an error raised by a layer walks on from  *)
(* the layer after it and is given only to the error-handling layers        *)
(* (those registered with four parameters).                                 *)
(***************************************************************************)
Layer(name, kind, method, path) ==
    [name |-> name, kind |-> kind, method |-> method, path |-> path]

Stack ==
    << Layer("express.json", "passthrough", "*", "*"),
       Layer("express.urlencoded", "passthrough", "*", "*"),
       Layer("express.static", "passthrough", "*", "*"),
       Layer("multerError", "error", "*", "*"),
       Layer("index", "route", "GET", "/"),
       Layer("enviarCandidatura", "route", "POST", "/enviar-candidatura"),
       Layer("health", "route", "GET", "/health"),
       Layer("notFound", "middleware", "*", "*"),
       Layer("globalError", "error", "*", "*") >>

\* The first layer at or after i that takes a request without an error.
\* express.json, express.urlencoded and express.static call next() for a
\* multipart POST; error-handling layers are skipped.
RECURSIVE FindHandler(_, _, _)
FindHandler(i, method, path) ==
    IF i > Len(Stack) THEN 0
    ELSE IF Stack[i].kind = "middleware" THEN i
    ELSE IF /\ Stack[i].kind = "route"
            /\ Stack[i].method = method
            /\ Stack[i].path = path THEN i
    ELSE FindHandler(i + 1, method, path)

RouteIndex == FindHandler(1, "POST", "/enviar-candidatura")

\* The middleware registered as the multer error handler: NoRes stands for
\* next(error).
MulterErrorMiddleware(error) ==
    IF error.multer /\ error.code = "LIMIT_FILE_SIZE"
    THEN Json(400, FALSE, MsgFileTooLarge)
    ELSE NoRes

\* The global error middleware.
GlobalErrorMiddleware(error) == Json(500, FALSE, MsgInternal)

\* next(error) called by layer i - 1: the response of the first error-handling
\* layer at or after i that answers.  Past the end of the stack Express's
\* own final handler answers 500.
RECURSIVE ErrorResponse(_, _)
ErrorResponse(i, error) ==
    IF i > Len(Stack) THEN [status |-> 500]
    ELSE IF Stack[i].kind # "error" THEN ErrorResponse(i + 1, error)
    ELSE IF Stack[i].name = "multerError"
         THEN IF MulterErrorMiddleware(error) # NoRes
              THEN MulterErrorMiddleware(error)
              ELSE ErrorResponse(i + 1, error)
    ELSE GlobalErrorMiddleware(error)

\* The response to an error that upload.single passes to next().
UploadErrorResponse(error) == ErrorResponse(RouteIndex + 1, error)

(***************************************************************************)
(* The uploads directory.                                                   *)
(***************************************************************************)
\* fs.existsSync(path)
Exists(d, path) == \E e \in d : e.path = path

\* The directory after a successful fs.unlink of path.
Unlinked(d, path) == {e \in d : e.path # path}

\* The file object found at path (0 when there is none).
ObjAt(d, path) == IF Exists(d, path) THEN (CHOOSE e \in d : e.path = path).obj ELSE 0

\* The outcomes of one fs.unlinkSync call on an existing file.
UnlinkOutcomes == IF fsFaulty THEN {"ok", "EPERM"} ELSE {"ok"}

(***************************************************************************)
(* The handler's exits.  Every exit is a record of what the block leaves    *)
(* behind: the directory, the unlink counts, the request's trace, its       *)
(* response and where it stands.                                            *)
(***************************************************************************)
Outcome(d, rm, tr, response, at) ==
    [disk |-> d, removed |-> rm, trace |-> tr, res |-> response, pc |-> at]

\* rm after one more unlink of the file object at path.
CountUnlink(d, rm, path) ==
    [rm EXCEPT ![ObjAt(d, path)] = @ + 1]

\* A catch block that answers with res.json alone, leaving the status 200.
CatchResponseNoStatus(error) == Json(200, FALSE, ErrorMessage(error))

\* The response of the catch block.
CatchResponse(error) == Json(500, FALSE, ErrorMessage(error))

\* A catch block that answers without cleaning up.
CatchBlockNoCleanup(resumeFile, d, rm, tr, error, o2) ==
    Outcome(d, rm, tr \o <<"respond">>, CatchResponse(error), "done")

\* The catch block: `if (resumeFile && fs.existsSync(resumeFile.path))
\* fs.unlinkSync(...)`, then res.status(500).json(...).  An unlinkSync that
\* throws here rejects the async handler's promise, which nothing handles: no
\* response is sent.
CatchBlock(resumeFile, d, rm, tr, error, o2) ==
    IF resumeFile # NoFile /\ Exists(d, resumeFile.path)
    THEN IF o2 = "ok"
         THEN Outcome(Unlinked(d, resumeFile.path),
                      CountUnlink(d, rm, resumeFile.path),
                      tr \o <<"unlink", "respond">>,
                      CatchResponse(error), "done")
         ELSE Outcome(d, rm, tr \o <<"unlinkThrew">>, NoRes, "unhandled")
    ELSE Outcome(d, rm, tr \o <<"respond">>, CatchResponse(error), "done")

\* An exit that answers without deleting the file.
ExitBlockNoUnlink(resumeFile, d, rm, tr, response, o1, o2) ==
    Outcome(d, rm, tr \o <<"respond">>, response, "done")

\* An exit that answers first and deletes the file afterwards.
ExitBlockRespondFirst(resumeFile, d, rm, tr, response, o1, o2) ==
    IF resumeFile # NoFile /\ Exists(d, resumeFile.path)
    THEN Outcome(Unlinked(d, resumeFile.path),
                 [rm EXCEPT ![ObjAt(d, resumeFile.path)] = @ + 1],
                 tr \o <<"respond", "unlink">>, response, "done")
    ELSE Outcome(d, rm, tr \o <<"respond">>, response, "done")

\* An exit inside the try block: the guarded unlinkSync followed by the
\* response (the two 400 exits and the success exit).  An unlinkSync that
\* throws transfers control to the catch block.
ExitBlock(resumeFile, d, rm, tr, response, o1, o2) ==
    IF resumeFile # NoFile /\ Exists(d, resumeFile.path)
    THEN IF o1 = "ok"
         THEN Outcome(Unlinked(d, resumeFile.path),
                      CountUnlink(d, rm, resumeFile.path),
                      tr \o <<"unlink", "respond">>, response, "done")
         ELSE CatchBlock(resumeFile, d, rm, tr \o <<"unlinkThrew">>,
                         [code |-> o1, multer |-> FALSE], o2)
    ELSE Outcome(d, rm, tr \o <<"respond">>, response, "done")

\* The state after request r leaves the handler with outcome out.
Leave(r, out) ==
    /\ disk' = out.disk
    /\ removed' = out.removed
    /\ trace' = [trace EXCEPT ![r] = out.trace]
    /\ res' = [res EXCEPT ![r] = out.res]
    /\ pc' = [pc EXCEPT ![r] = out.pc]

\* mailOptions as the handler builds it.
MailOptions(s, resumeFile) ==
    [ to |-> "rh@pereirawesolutions.com.br",
      replyTo |-> s.email,
      subject |-> <<"Nova Candidatura - ">> \o s.position,
      attachments |-> << [ filename |-> resumeFile.originalname,
                           path |-> resumeFile.path,
                           contentType |-> resumeFile.mimetype ] >> ]

\* The ways transporter.verify() settles.
VerifyOutcomes == {"ok", "ECONNECTION", "EAUTH", "ETIMEDOUT"}

\* The ways transporter.sendMail() settles: the attachment is read from its
\* path, and a path that does not exist fails the send with ENOENT.
SendOutcomes(readable) == IF readable THEN {"ok", "EENVELOPE"} ELSE {"ENOENT"}

(***************************************************************************)
(* The operations.                                                          *)
(***************************************************************************)
\* The clock advances.
Tick ==
    /\ now < MaxTime
    /\ now' = now + 1
    /\ UNCHANGED <<sub, pc, reqFile, disk, fileObj, removed, trace, mailCalls,
                   attachOk, delivered, res, fsFaulty>>

\* upload.single('resume'): the file filter, the size limit and the disk
\* storage.  A rejected upload never reaches the handler: multer removes what
\* it wrote and passes the error to next().
Upload(r) ==
    /\ pc[r] = "upload"
    /\ Stack[RouteIndex].name = "enviarCandidatura"
    /\ LET u == sub[r].upload IN
       IF u = NoUpload
       THEN /\ pc' = [pc EXCEPT ![r] = "route"]
            /\ UNCHANGED <<reqFile, disk, fileObj, removed, trace, res>>
       ELSE IF ~FileFilterAccepts(u.mimetype)
       THEN /\ res' = [res EXCEPT ![r] =
                         UploadErrorResponse([code |-> "", multer |-> FALSE])]
            /\ trace' = [trace EXCEPT ![r] = @ \o <<"respond">>]
            /\ pc' = [pc EXCEPT ![r] = "done"]
            /\ UNCHANGED <<reqFile, disk, fileObj, removed>>
       ELSE \E rnd \in 0..MaxRnd :
            LET path == StoredPath(now, rnd, u.originalname) IN
            IF ExceedsLimit(u.size)
            THEN /\ disk' = Unlinked(disk, path)
                 /\ removed' = IF Exists(disk, path)
                               THEN CountUnlink(disk, removed, path)
                               ELSE removed
                 /\ res' = [res EXCEPT ![r] =
                              UploadErrorResponse([code |-> "LIMIT_FILE_SIZE",
                                                   multer |-> TRUE])]
                 /\ trace' = [trace EXCEPT ![r] = @ \o <<"respond">>]
                 /\ pc' = [pc EXCEPT ![r] = "done"]
                 /\ UNCHANGED <<reqFile, fileObj>>
            ELSE /\ disk' = IF Exists(disk, path) THEN disk
                            ELSE disk \cup {[path |-> path, obj |-> r]}
                 /\ fileObj' = [fileObj EXCEPT ![r] =
                                  IF Exists(disk, path) THEN ObjAt(disk, path)
                                  ELSE r]
                 /\ reqFile' = [reqFile EXCEPT ![r] =
                                  [path |-> path,
                                   originalname |-> u.originalname,
                                   mimetype |-> u.mimetype,
                                   size |-> u.size]]
                 /\ trace' = [trace EXCEPT ![r] = @ \o <<"store">>]
                 /\ pc' = [pc EXCEPT ![r] = "route"]
                 /\ UNCHANGED <<removed, res>>
    /\ UNCHANGED <<now, sub, mailCalls, attachOk, delivered, fsFaulty>>

\* The handler from its first line to `await transporter.verify()`.
Handler(r) ==
    /\ pc[r] = "route"
    /\ LET s == sub[r]
           resumeFile == reqFile[r] IN
       IF MissingField(s.name, s.email, s.position, resumeFile)
       THEN \E o1 \in UnlinkOutcomes, o2 \in UnlinkOutcomes :
            Leave(r, ExitBlock(resumeFile, disk, removed, trace[r],
                               Json(400, FALSE, MsgAllRequired), o1, o2))
       ELSE IF ~EmailRegexTest(s.email)
       THEN \E o1 \in UnlinkOutcomes, o2 \in UnlinkOutcomes :
            Leave(r, ExitBlock(resumeFile, disk, removed, trace[r],
                               Json(400, FALSE, MsgInvalidEmail), o1, o2))
       ELSE /\ trace' = [trace EXCEPT ![r] = @ \o <<"verify">>]
            /\ pc' = [pc EXCEPT ![r] = "verify"]
            /\ UNCHANGED <<disk, removed, res>>
    /\ UNCHANGED <<now, sub, reqFile, fileObj, mailCalls, attachOk, delivered,
                   fsFaulty>>

\* transporter.verify() settles: the handler builds mailOptions and calls
\* sendMail, or lands in the catch block.
VerifyReturn(r) ==
    /\ pc[r] = "verify"
    /\ \E v \in VerifyOutcomes :
       IF v = "ok"
       THEN /\ mailCalls' = [mailCalls EXCEPT ![r] =
                                Append(@, MailOptions(sub[r], reqFile[r]))]
            /\ trace' = [trace EXCEPT ![r] = @ \o <<"verifyOk", "sendMail">>]
            /\ pc' = [pc EXCEPT ![r] = "send"]
            /\ UNCHANGED <<disk, removed, res>>
       ELSE /\ \E o2 \in UnlinkOutcomes :
               Leave(r, CatchBlock(reqFile[r], disk, removed,
                                   trace[r] \o <<"verifyFailed">>,
                                   [code |-> v, multer |-> FALSE], o2))
            /\ UNCHANGED mailCalls
    /\ UNCHANGED <<now, sub, reqFile, fileObj, attachOk, delivered, fsFaulty>>

\* The transport opens the attachment by its path while sendMail runs.
AttachRead(r) ==
    /\ pc[r] = "send"
    /\ attachOk' = [attachOk EXCEPT ![r] =
                      \A a \in 1..Len(mailCalls[r][1].attachments) :
                          Exists(disk, mailCalls[r][1].attachments[a].path)]
    /\ pc' = [pc EXCEPT ![r] = "sending"]
    /\ UNCHANGED <<now, sub, reqFile, disk, fileObj, removed, trace, mailCalls,
                   delivered, res, fsFaulty>>

\* transporter.sendMail() settles: the success exit, or the catch block.
SendReturn(r) ==
    /\ pc[r] = "sending"
    /\ \E m \in SendOutcomes(attachOk[r]) :
       IF m = "ok"
       THEN /\ delivered' = [delivered EXCEPT ![r] = TRUE]
            /\ \E o1 \in UnlinkOutcomes, o2 \in UnlinkOutcomes :
               Leave(r, ExitBlock(reqFile[r], disk, removed,
                                  trace[r] \o <<"sendOk">>,
                                  Json(200, TRUE, MsgSent), o1, o2))
       ELSE /\ \E o2 \in UnlinkOutcomes :
               Leave(r, CatchBlock(reqFile[r], disk, removed,
                                   trace[r] \o <<"sendFailed">>,
                                   [code |-> m, multer |-> FALSE], o2))
            /\ UNCHANGED delivered
    /\ UNCHANGED <<now, sub, reqFile, fileObj, mailCalls, attachOk, fsFaulty>>

(***************************************************************************)
(* The submissions.                                                         *)
(***************************************************************************)
Str3(a, b, c) == <<a, b, c>>

Names == {<<>>, Str3("A", "n", "a")}
Positions == {<<>>, Str3("D", "e", "v")}
OrigNames == {<<"c", "v">>, <<"1", "_", "c", "v">>}
Mimes == AllowedMimes \cup {"text/plain"}
Sizes == {1, FileSizeLimit, FileSizeLimit + 1}
EmailSamples ==
    { <<>>,
      <<"a", "@", "b", ".", "c">>,
      <<"a", "@", "b">>,
      <<"a", " ", "@", "b", ".", "c">> }

EmailAlphabet == {"a", "@", ".", " "}
AllEmails == UNION {[1..n -> EmailAlphabet] : n \in 0..MaxEmailLen}

Uploads ==
    {NoUpload} \cup [originalname : OrigNames, mimetype : Mimes, size : Sizes]

Submission(name, email, position, upload) ==
    [name |-> name, email |-> email, position |-> position, upload |-> upload]

Submissions ==
    [name : Names, email : EmailSamples, position : Positions, upload : Uploads]

Cv(size) ==
    [originalname |-> <<"c", "v">>, mimetype |-> "application/pdf", size |-> size]

\* What the other requests submit: a complete application, one without a
\* name, and one whose file is too large, all with the same file name.
Rivals ==
    { Submission(Str3("A", "n", "a"), <<"a", "@", "b", ".", "c">>,
                 Str3("D", "e", "v"), Cv(1)),
      Submission(<<>>, <<"a", "@", "b", ".", "c">>, Str3("D", "e", "v"), Cv(1)),
      Submission(Str3("A", "n", "a"), <<"a", "@", "b", ".", "c">>,
                 Str3("D", "e", "v"), Cv(FileSizeLimit + 1)) }

\* Every combination of fields with one upload of each kind: none, stored,
\* stored at the size limit, too large, and of a refused type.
LiveSubmissions ==
    [name : Names, email : EmailSamples, position : Positions,
     upload : { NoUpload, Cv(1), Cv(FileSizeLimit + 1),
                [originalname |-> <<"1", "_", "c", "v">>,
                 mimetype |-> "application/msword", size |-> FileSizeLimit],
                [originalname |-> <<"c", "v">>,
                 mimetype |-> "text/plain", size |-> 1] }]

EmailSubmissions ==
    [name : {Str3("A", "n", "a")}, email : AllEmails,
     position : {Str3("D", "e", "v")},
     upload : {Cv(1), Cv(FileSizeLimit + 1)}]

(***************************************************************************)
(* The specifications.                                                      *)
(***************************************************************************)
Start(first, rest, faulty) ==
    /\ now = 0
    /\ sub \in {f \in [Reqs -> first \cup rest] :
                  /\ f[1] \in first
                  /\ \A r \in Reqs \ {1} : f[r] \in rest}
    /\ pc = [r \in Reqs |-> "upload"]
    /\ reqFile = [r \in Reqs |-> NoFile]
    /\ disk = {}
    /\ fileObj = [r \in Reqs |-> 0]
    /\ removed = [r \in Reqs |-> 0]
    /\ trace = [r \in Reqs |-> <<>>]
    /\ mailCalls = [r \in Reqs |-> <<>>]
    /\ attachOk = [r \in Reqs |-> FALSE]
    /\ delivered = [r \in Reqs |-> FALSE]
    /\ res = [r \in Reqs |-> NoRes]
    /\ fsFaulty = faulty

Init == Start(Submissions, Rivals, FALSE)

InitEmail == Start(EmailSubmissions, {Submission(<<>>, <<>>, <<>>, NoUpload)}, FALSE)

InitLive == Start(LiveSubmissions, Rivals, FALSE)

InitFault == Start(Submissions, Rivals, TRUE)

Next ==
    \/ Tick
    \/ \E r \in Reqs : Upload(r)
    \/ \E r \in Reqs : Handler(r)
    \/ \E r \in Reqs : VerifyReturn(r)
    \/ \E r \in Reqs : AttachRead(r)
    \/ \E r \in Reqs : SendReturn(r)

\* The server with a file system whose unlink always succeeds.
Spec == Init /\ [][Next]_vars

\* The same, with request 1 ranging over every e-mail string of the bound.
SpecEmail == InitEmail /\ [][Next]_vars

\* The same as Spec, with a file system whose unlink may throw.
SpecFault == InitFault /\ [][Next]_vars

\* Every started step of a request completes: multer finishes the upload,
\* the event loop runs the handler, and the transport settles both promises.
Fairness ==
    \A r \in Reqs :
        /\ WF_vars(Upload(r))
        /\ WF_vars(Handler(r))
        /\ WF_vars(VerifyReturn(r))
        /\ WF_vars(AttachRead(r))
        /\ WF_vars(SendReturn(r))

LiveSpec == InitLive /\ [][Next]_vars /\ Fairness

(***************************************************************************)
(* Vocabulary of the properties.                                            *)
(***************************************************************************)
\* The request has been answered.
Responded(r) == pc[r] = "done"

\* The upload step stored a temp file for the request.
Stored(r) == reqFile[r] # NoFile

\* How often event e occurs in trace tr.
Count(tr, e) == Cardinality({i \in 1..Len(tr) : tr[i] = e})

Occurs(tr, e) == \E i \in 1..Len(tr) : tr[i] = e

\* The file the request stored is still in the uploads directory.
StoredFileExists(r) ==
    [path |-> reqFile[r].path, obj |-> fileObj[r]] \in disk

\* The request left something of its own in the uploads directory.
LeftFile(r) == \E e \in disk : e.obj = r

\* The three accepted content types, as the specification lists them.
PdfDocDocx ==
    { "application/pdf",
      "application/msword",
      "application/vnd.openxmlformats-officedocument.wordprocessingml.document" }

\* The upload step accepts the file sent with the request.
AcceptedUpload(u) ==
    u # NoUpload /\ u.mimetype \in PdfDocDocx /\ u.size <= 5 * 1024 * 1024

\* The local@domain.tld shape: no whitespace, exactly one '@' with text
\* before it, and a '.' in the domain part with text on both sides.
LocalAtDomainTld(s) ==
    /\ Cardinality({i \in 1..Len(s) : s[i] = "@"}) = 1
    /\ \A i \in 1..Len(s) : s[i] \notin {" ", "\t", "\n"}
    /\ LET at == CHOOSE i \in 1..Len(s) : s[i] = "@" IN
         /\ at > 1
         /\ \E dot \in (at + 2)..(Len(s) - 1) : s[dot] = "."

\* Name, e-mail and position are present, the file is accepted and the
\* e-mail is well-formed.
ValidInput(s) ==
    /\ s.name # <<>> /\ s.email # <<>> /\ s.position # <<>>
    /\ AcceptedUpload(s.upload)
    /\ LocalAtDomainTld(s.email)

(***************************************************************************)
(* C1.  A request for which the upload step stored a temp file has, by the  *)
(* time it is answered on whatever exit path, seen that file deleted        *)
(* exactly once: the file is gone from the uploads directory, its unlink    *)
(* count is one, and the request itself unlinked at most once.              *)
(***************************************************************************)
C1_StoredFileDeletedOnce ==
    \A r \in Reqs :
        (Responded(r) /\ Stored(r)) =>
            /\ ~StoredFileExists(r)
            /\ removed[fileObj[r]] = 1
            /\ Count(trace[r], "unlink") <= 1

\* Two answered requests with stored files, one on an error exit and one on
\* a validation exit.
C1_Witness ==
    \E r, q \in Reqs :
        /\ Responded(r) /\ Stored(r) /\ res[r].status = 500
        /\ Responded(q) /\ Stored(q) /\ res[q].status = 400
        /\ removed[fileObj[r]] = 1 /\ removed[fileObj[q]] = 1

(***************************************************************************)
(* C2.  A request whose resume is larger than 5MB (and of an accepted type) *)
(* is answered 400 with the size-limit message.                             *)
(***************************************************************************)
C2_TooLargeIs400 ==
    \A r \in Reqs :
        ( /\ Responded(r)
          /\ sub[r].upload # NoUpload
          /\ sub[r].upload.mimetype \in PdfDocDocx
          /\ sub[r].upload.size > 5 * 1024 * 1024 ) =>
            /\ res[r].status = 400
            /\ res[r].message = MsgFileTooLarge

(***************************************************************************)
(* C3.  A request with valid input whose verify and sendMail both succeed   *)
(* is answered 200 with success = true in the same step, sendMail was       *)
(* called exactly once with the resume attached from its temp path, and the *)
(* temp file no longer exists when the response is sent.                    *)
(***************************************************************************)
C3_ValidDelivered ==
    \A r \in Reqs :
        (ValidInput(sub[r]) /\ delivered[r]) =>
            /\ Responded(r)
            /\ res[r] = Json(200, TRUE, MsgSent)
            /\ Len(mailCalls[r]) = 1
            /\ Count(trace[r], "sendMail") = 1
            /\ Len(mailCalls[r][1].attachments) = 1
            /\ mailCalls[r][1].attachments[1].path = reqFile[r].path
            /\ mailCalls[r][1].attachments[1].filename = sub[r].upload.originalname
            /\ ~StoredFileExists(r)
            /\ removed[fileObj[r]] = 1

C3_Witness ==
    \E r \in Reqs :
        /\ ValidInput(sub[r]) /\ delivered[r]
        /\ res[r].status = 200
        /\ Occurs(trace[r], "unlink")

(***************************************************************************)
(* C4.  A request with valid input whose transporter.verify() fails is      *)
(* answered 500 with success = false, sendMail is never called for it, and  *)
(* its temp file no longer exists after the request.                        *)
(***************************************************************************)
C4_VerifyFailed ==
    \A r \in Reqs :
        (ValidInput(sub[r]) /\ Occurs(trace[r], "verifyFailed")) =>
            /\ Responded(r)
            /\ res[r].status = 500
            /\ res[r].success = FALSE
            /\ mailCalls[r] = <<>>
            /\ ~Occurs(trace[r], "sendMail")
            /\ ~delivered[r]
            /\ ~StoredFileExists(r)
            /\ removed[fileObj[r]] = 1

C4_Witness ==
    \E r \in Reqs :
        /\ ValidInput(sub[r]) /\ Occurs(trace[r], "verifyFailed")
        /\ res[r] = Json(500, FALSE, MsgMailConfig)
        /\ Occurs(trace[r], "unlink")

(***************************************************************************)
(* C5.  A request in which name, e-mail, position or the resume file is     *)
(* absent (the file, when one is sent, being of an accepted type) is        *)
(* answered 400 with success = false, with no verify or sendMail call and   *)
(* no temp file of the request left on disk.                                *)
(***************************************************************************)
C5_MissingFieldIs400 ==
    \A r \in Reqs :
        ( /\ Responded(r)
          /\ \/ sub[r].name = <<>>
             \/ sub[r].email = <<>>
             \/ sub[r].position = <<>>
             \/ sub[r].upload = NoUpload
          /\ sub[r].upload # NoUpload => sub[r].upload.mimetype \in PdfDocDocx ) =>
            /\ res[r].status = 400
            /\ res[r].success = FALSE
            /\ ~Occurs(trace[r], "verify")
            /\ ~Occurs(trace[r], "sendMail")
            /\ ~LeftFile(r)

(***************************************************************************)
(* C6.  As stated: a request with all four fields present whose e-mail does *)
(* not have the local@domain.tld shape is answered 400 'E-mail inválido',   *)
(* its temp file is removed and no e-mail is sent.                          *)
(***************************************************************************)
C6_InvalidEmailIs400 ==
    \A r \in Reqs :
        ( /\ Responded(r)
          /\ sub[r].name # <<>> /\ sub[r].email # <<>> /\ sub[r].position # <<>>
          /\ sub[r].upload # NoUpload
          /\ ~LocalAtDomainTld(sub[r].email) ) =>
            /\ res[r] = Json(400, FALSE, MsgInvalidEmail)
            /\ ~LeftFile(r)
            /\ mailCalls[r] = <<>>

(***************************************************************************)
(* C6, amended.  The same for a request whose file the upload step          *)
(* accepted: it never gets past validation, it is answered 400 'E-mail      *)
(* inválido', its temp file has been deleted once and no verify or sendMail *)
(* call was made.                                                           *)
(***************************************************************************)
C6_InvalidEmailAcceptedFile ==
    \A r \in Reqs :
        ( /\ sub[r].name # <<>> /\ sub[r].email # <<>> /\ sub[r].position # <<>>
          /\ AcceptedUpload(sub[r].upload)
          /\ ~LocalAtDomainTld(sub[r].email) ) =>
            /\ pc[r] \in {"upload", "route", "done"}
            /\ Responded(r) =>
                /\ res[r] = Json(400, FALSE, MsgInvalidEmail)
                /\ ~StoredFileExists(r)
                /\ removed[fileObj[r]] = 1
                /\ mailCalls[r] = <<>>
                /\ ~Occurs(trace[r], "verify")

\* An e-mail with an '@' and a domain without a dot, rejected after its
\* file was stored.
C6_Witness ==
    \E r \in Reqs :
        /\ Responded(r) /\ Stored(r)
        /\ sub[r].email = <<"a", "@", "a", "a">>
        /\ res[r] = Json(400, FALSE, MsgInvalidEmail)
        /\ Occurs(trace[r], "unlink")

(***************************************************************************)
(* C7.  An upload whose content type is none of PDF, DOC, DOCX is rejected  *)
(* before the route body runs: nothing of it is written to the uploads      *)
(* directory, neither verify nor sendMail is called, and the client gets an *)
(* error response.                                                          *)
(***************************************************************************)
C7_BadMimeRejected ==
    \A r \in Reqs :
        (sub[r].upload # NoUpload /\ sub[r].upload.mimetype \notin PdfDocDocx) =>
            /\ pc[r] \in {"upload", "done"}
            /\ ~Stored(r)
            /\ ~LeftFile(r)
            /\ ~Occurs(trace[r], "store")
            /\ ~Occurs(trace[r], "verify")
            /\ ~Occurs(trace[r], "sendMail")
            /\ mailCalls[r] = <<>>
            /\ Responded(r) => (res[r].status >= 400 /\ res[r].success = FALSE)

C7_Witness ==
    \E r \in Reqs :
        /\ sub[r].upload # NoUpload
        /\ sub[r].upload.mimetype = "text/plain"
        /\ Responded(r)
        /\ res[r].status = 500

(***************************************************************************)
(* C8.  Any two requests that stored a temp file stored it under distinct   *)
(* names, so each one's file is its own.                                    *)
(***************************************************************************)
C8_DistinctNames ==
    \A r, q \in Reqs :
        (r # q /\ Stored(r) /\ Stored(q)) =>
            /\ reqFile[r].path # reqFile[q].path
            /\ fileObj[r] = r

(***************************************************************************)
(* C9.  A request that enters the handler moves through                     *)
(* store, verify, verify settled, sendMail, sendMail settled, cleanup,      *)
(* respond in that order, each at most once (so: one response at most, one  *)
(* verify and one sendMail call at most, any deletion before the response); *)
(* once answered it does nothing more; and it is eventually answered.       *)
(***************************************************************************)
Rank(e) ==
    CASE e = "store" -> 0
      [] e = "verify" -> 1
      [] e \in {"verifyOk", "verifyFailed"} -> 2
      [] e = "sendMail" -> 3
      [] e \in {"sendOk", "sendFailed"} -> 4
      [] e = "unlink" -> 5
      [] e = "respond" -> 6
      [] OTHER -> 7

Linear(tr) ==
    /\ \A i \in 1..Len(tr) : Rank(tr[i]) <= 6
    /\ \A i, j \in 1..Len(tr) : i < j => Rank(tr[i]) < Rank(tr[j])

C9_Order ==
    \A r \in Reqs :
        /\ Linear(trace[r])
        /\ (res[r] # NoRes) <=> Occurs(trace[r], "respond")
        /\ Occurs(trace[r], "respond") <=> Responded(r)
        /\ Occurs(trace[r], "sendMail") => Occurs(trace[r], "verifyOk")
        /\ Count(trace[r], "sendMail") = Len(mailCalls[r])

C9_Terminal ==
    \A r \in Reqs :
        Responded(r) =>
            /\ trace'[r] = trace[r]
            /\ res'[r] = res[r]
            /\ mailCalls'[r] = mailCalls[r]
            /\ pc'[r] = pc[r]

C9_StateMachine ==
    /\ []C9_Order
    /\ [][C9_Terminal]_vars
    /\ \A r \in Reqs : (pc[r] = "route") ~> (Responded(r) /\ res[r] # NoRes)

\* A request answered after its sendMail failed and its file was deleted.
C9_Witness ==
    \E r \in Reqs :
        /\ Responded(r)
        /\ trace[r] = <<"store", "verify", "verifyOk", "sendMail", "sendFailed",
                        "unlink", "respond">>

(***************************************************************************)
(* C10.  An answered request was answered 200 with success = true exactly   *)
(* when its sendMail completed successfully, also when the deletion of the  *)
(* temp file after the send fails.                                          *)
(***************************************************************************)
C10_OkIffDelivered ==
    \A r \in Reqs :
        res[r] # NoRes =>
            ((res[r].status = 200 /\ res[r].success = TRUE) <=> delivered[r])

====
